---- MODULE Spec2Model ----
(***************************************************************************)
(* lwrpc: light weight remote procedure calls.                             *)
(*                                                                         *)
(* Two channel engines (createChannel) joined by an order-preserving       *)
(* object channel.  Every engine owns open, counter, remoteFunctions,      *)
(* inFlight, published and expected; the receive handler, the close        *)
(* handler, publishFunction and the Proxy get handler are the actions.     *)
(* validate is the recursive structural validator, computed on a model of  *)
(* JavaScript values.                                                      *)
(*                                                                         *)
(* Spec and FairSpec are two engines serving user code that calls on one   *)
(* side and publishes on the other; EarlySpec starts them after a          *)
(* publication made before the peer listened; SyncSpec joins them by a     *)
(* transport that delivers inside send; HeldSpec has user code keep the    *)
(* callables it gets before it invokes them; ServeSpec is an engine facing *)
(* a far end and user code that step outside that; ValidateSpec is         *)
(* validate on its own.                                                    *)
(***************************************************************************)
EXTENDS Integers, Sequences, FiniteSets, TLC

(***************************************************************************)
(* JavaScript values.  A value is a record whose field k is its runtime    *)
(* kind; an array carries the sequence of its elements and an object the   *)
(* sequence of its own enumerable <<key, value>> pairs in Object.keys      *)
(* order.  Type descriptors (Sendable) are such values too: they are plain *)
(* data and cross the wire verbatim.                                       *)
(***************************************************************************)
Null == [k |-> "null"]

Undef == [k |-> "undef"]

Num(n) == [k |-> "num", v |-> n]

Str(s) == [k |-> "str", v |-> s]

Bool(b) == [k |-> "bool", v |-> b]

Arr(s) == [k |-> "arr", v |-> s]

Obj(p) == [k |-> "obj", v |-> p]

isArray(x) == x.k = "arr"

isString(x) == x.k = "str"

isNumber(x) == x.k = "num"

isBool(x) == x.k = "bool"

\* typeof null is 'object' as well
isObject(x) == x.k \in {"obj", "null"}

(***************************************************************************)
(* The helper H and the three tagged descriptors it builds.                *)
(***************************************************************************)
none == 0

string == 1

number == 2

boolean == 3

TagArray == 4

TagObject == 5

TagUnion == 6

HNone == Num(none)

HString == Num(string)

HNumber == Num(number)

HBoolean == Num(boolean)

HArray(valueType) == Obj(<< <<"$c", Num(TagArray)>>, <<"$v", valueType>> >>)

HObject(keyType, valueType) ==
    Obj(<< <<"$c", Num(TagObject)>>, <<"$k", keyType>>, <<"$v", valueType>> >>)

HUnion(unionTypes) == Obj(<< <<"$c", Num(TagUnion)>>, <<"$t", Arr(unionTypes)>> >>)

(***************************************************************************)
(* Property access on values.                                              *)
(***************************************************************************)
Digits == <<"0", "1", "2", "3", "4", "5", "6", "7", "8", "9">>

\* the characters of the strings the model uses (TLA+ cannot index a string)
Chars(s) ==
    CASE s = "x" -> <<"x">>
      [] s = "add" -> <<"a", "d", "d">>
      [] s = "nop" -> <<"n", "o", "p">>
      [] OTHER -> <<>>

\* Object.keys(x), for x neither null nor undefined
ObjectKeys(x) ==
    CASE x.k = "obj" -> [i \in 1..Len(x.v) |-> x.v[i][1]]
      [] x.k = "arr" -> [i \in 1..Len(x.v) |-> Digits[i]]
      [] x.k = "str" -> [i \in 1..Len(x.v) |-> Digits[i]]
      [] OTHER -> <<>>

\* x.hasOwnProperty(key), for x neither null nor undefined
hasOwnProperty(x, key) ==
    CASE x.k = "obj" -> \E i \in 1..Len(x.v) : x.v[i][1] = key
      [] x.k \in {"arr", "str"} ->
            \/ key = "length"
            \/ \E i \in 1..Len(x.v) : Digits[i] = key
      [] OTHER -> FALSE

\* x[key], for x neither null nor undefined
Get(x, key) ==
    CASE x.k = "obj" /\ hasOwnProperty(x, key) ->
            x.v[CHOOSE i \in 1..Len(x.v) : x.v[i][1] = key][2]
      [] x.k = "arr" /\ (\E i \in 1..Len(x.v) : Digits[i] = key) ->
            x.v[CHOOSE i \in 1..Len(x.v) : Digits[i] = key]
      [] x.k = "str" /\ (\E i \in 1..Len(x.v) : Digits[i] = key) ->
            Str(Chars(x.v)[CHOOSE i \in 1..Len(x.v) : Digits[i] = key])
      [] x.k \in {"arr", "str"} /\ key = "length" -> Num(Len(x.v))
      [] OTHER -> Undef

\* Object.values(x), for x neither null nor undefined
ObjectValues(x) ==
    LET keys == ObjectKeys(x) IN [i \in 1..Len(keys) |-> Get(x, keys[i])]

(***************************************************************************)
(* validate(value, type).  The result is "true" or "false" when the        *)
(* function returns and "throw" when it raises a TypeError (a property     *)
(* read or Object.keys on null or undefined).  every and some run in       *)
(* order and stop at the first element that decides them.                  *)
(***************************************************************************)
Truth(b) == IF b THEN "true" ELSE "false"

RECURSIVE validate(_, _)
RECURSIVE EveryPair(_, _, _)
RECURSIVE EveryValue(_, _, _)
RECURSIVE SomeType(_, _, _)
RECURSIVE EveryField(_, _, _, _)

\* value.map((v, i) => [v, type[i]]).every(([v, t]) => validate(v, t)), from i
EveryPair(vals, types, i) ==
    IF i > Len(vals) THEN "true"
    ELSE LET r == validate(vals[i], types[i])
         IN  IF r = "true" THEN EveryPair(vals, types, i + 1) ELSE r

\* vals.every(v => validate(v, t)), from i
EveryValue(vals, t, i) ==
    IF i > Len(vals) THEN "true"
    ELSE LET r == validate(vals[i], t)
         IN  IF r = "true" THEN EveryValue(vals, t, i + 1) ELSE r

\* types.some(t => validate(value, t)), from i
SomeType(value, types, i) ==
    IF i > Len(types) THEN "false"
    ELSE LET r == validate(value, types[i])
         IN  IF r = "false" THEN SomeType(value, types, i + 1) ELSE r

\* keys.every(k => validate(vres[k], tres[k])), from i
EveryField(keys, vres, tres, i) ==
    IF i > Len(keys) THEN "true"
    ELSE LET r == validate(Get(vres, keys[i]), Get(tres, keys[i]))
         IN  IF r = "true" THEN EveryField(keys, vres, tres, i + 1) ELSE r

\* the variable structure object branch: Object.keys(value) raises on null
ValidateVariableObject(value, type) ==
    IF value.k = "null" THEN "throw"
    ELSE LET keys == ObjectKeys(value)
             kr == EveryValue([i \in 1..Len(keys) |-> Str(keys[i])], Get(type, "$k"), 1)
         IN  IF kr # "true" THEN kr
             ELSE EveryValue(ObjectValues(value), Get(type, "$v"), 1)

\* the typed union branch: Object.values(type.$t) raises on null and undefined
ValidateUnion(value, type) ==
    LET t == Get(type, "$t")
    IN  IF t.k \in {"null", "undef"} THEN "throw"
        ELSE SomeType(value, ObjectValues(t), 1)

\* the fixed structure object branch: three every() joined by &&
ValidateFixedObject(value, type) ==
    LET tkeys == ObjectKeys(type)
    IN  IF tkeys # <<>> /\ value.k \in {"null", "undef"} THEN "throw"
        ELSE IF \E i \in 1..Len(tkeys) : ~hasOwnProperty(value, tkeys[i]) THEN "false"
        ELSE IF value.k \in {"null", "undef"} THEN "throw"
        ELSE LET vkeys == ObjectKeys(value)
             IN  IF \E i \in 1..Len(vkeys) : ~hasOwnProperty(type, vkeys[i])
                 THEN "false"
                 ELSE EveryField(vkeys, value, type, 1)

validate(value, type) ==
    IF isNumber(type) THEN
        CASE type.v = none -> Truth(value.k = "null")
          [] type.v = string -> Truth(isString(value))
          [] type.v = number -> Truth(isNumber(value))
          [] type.v = boolean -> Truth(isBool(value))
          [] OTHER -> "false"
    ELSE IF isArray(type) THEN
        IF isArray(value)
        THEN IF Len(type.v) = Len(value.v) THEN EveryPair(value.v, type.v, 1) ELSE "false"
        ELSE "false"
    ELSE IF isObject(type) THEN
        IF type.k = "null" THEN "throw"
        ELSE IF hasOwnProperty(type, "$c") THEN
            IF isArray(value) /\ Get(type, "$c") = Num(TagArray)
            THEN EveryValue(value.v, Get(type, "$v"), 1)
            ELSE IF Get(type, "$c") = Num(TagObject) /\ isObject(value)
            THEN ValidateVariableObject(value, type)
            ELSE IF Get(type, "$c") = Num(TagUnion)
            THEN ValidateUnion(value, type)
            ELSE "false"
        ELSE ValidateFixedObject(value, type)
    ELSE "false"

(***************************************************************************)
(* The two ends of the channel, and what user code feeds them.             *)
(***************************************************************************)
Sides == {"alpha", "beta"}

Peer(s) == IF s = "alpha" THEN "beta" ELSE "alpha"

\* user code on alpha calls, user code on beta publishes; both engines run
\* the same createChannel and either transport end may close
Caller == "alpha"

Publisher == "beta"

\* calls user code makes
MaxCalls == 2

\* a fixed structure object type and a value of it
Point == Obj(<< <<"a", HNumber>> >>)

\* the local function definitions user code publishes (name, args, returns, fn)
addDefinition ==
    [name |-> "add", args |-> Arr(<<HNumber, HNumber>>), returns |-> HNumber, fn |-> "sum"]

noargs == [name |-> "nop", args |-> Arr(<<>>), returns |-> HNone, fn |-> "void"]

fn2 == [name |-> "nop", args |-> Arr(<<>>), returns |-> HString, fn |-> "void"]

fn3 == [name |-> "nop", args |-> Arr(<<>>), returns |-> Point, fn |-> "void"]

optarg == [name |-> "nop", args |-> Arr(<<Point>>), returns |-> HNone, fn |-> "void"]

\* an implementation that raises: async () => { throw new Error() }
failing ==
    [name |-> "add", args |-> Arr(<<HNumber, HNumber>>), returns |-> HNumber, fn |-> "raise"]

Definitions == {addDefinition, noargs, fn2, fn3, optarg, failing}

Names == {d.name : d \in Definitions}

\* the calls user code makes: channel.add(3, 5), channel.add(1, 2),
\* channel.nop() and channel.nop(null)
Invocations ==
    { [name |-> "add", args |-> <<Num(3), Num(5)>>],
      [name |-> "add", args |-> <<Num(1), Num(2)>>],
      [name |-> "nop", args |-> <<>>],
      [name |-> "nop", args |-> <<Null>>] }

(***************************************************************************)
(* The local implementations.  An implementation returns a value or        *)
(* raises; "sum" is (a, b) => a + b, "void" is async () => {}, and any      *)
(* other raises new Error().                                               *)
(***************************************************************************)
Returned(v) == [k |-> "return", v |-> v]

Raised(e) == [k |-> "throw", v |-> e]

Apply(fn, args) ==
    CASE fn = "sum" -> Returned(Num(args[1].v + args[2].v))
      [] fn = "void" -> Returned(Undef)
      [] OTHER -> Raised("Error")

(***************************************************************************)
(* The state of the two engines and of the channel between them.           *)
(*   open, counter, remoteFunctions, inFlight, published, expected:        *)
(*       the variables of createChannel, one copy per side;                *)
(*   calls[s]:   the deferred results handed to user code on side s;       *)
(*   ready[s]:   callers released from expected[s] whose continuation has  *)
(*               not run yet, in release order;                            *)
(*   running[s]: inbound calls whose implementation has been invoked and   *)
(*               is awaited;                                               *)
(*   wire[s]:    the messages sent to side s and not yet received;         *)
(*   thrown[s]:  the error channel.publish raised last to user code on     *)
(*               side s, "" while it has raised none;                      *)
(*   sample, verdict: a value and a type handed to validate on its own,    *)
(*               and what validate made of them.                           *)
(***************************************************************************)
VARIABLES open, counter, remoteFunctions, inFlight, published, expected,
          calls, ready, running, wire, thrown, sample, verdict

vars == <<open, counter, remoteFunctions, inFlight, published, expected,
          calls, ready, running, wire, thrown, sample, verdict>>

probe == <<sample, verdict>>

engine == <<open, counter, remoteFunctions, inFlight, published, expected>>

Empty == <<>>

Pending == [k |-> "pending"]

Resolved(v) == [k |-> "resolved", v |-> v]

Failed(message) == [k |-> "failed", v |-> message]

\* nothing has been handed to validate on its own
NoSample == [value |-> Undef, type |-> Undef]

Init ==
    /\ open = [s \in Sides |-> TRUE]
    /\ counter = [s \in Sides |-> 1]
    /\ remoteFunctions = [s \in Sides |-> Empty]
    /\ inFlight = [s \in Sides |-> Empty]
    /\ published = [s \in Sides |-> Empty]
    /\ expected = [s \in Sides |-> Empty]
    /\ calls = [s \in Sides |-> <<>>]
    /\ ready = [s \in Sides |-> <<>>]
    /\ running = [s \in Sides |-> {}]
    /\ wire = [s \in Sides |-> <<>>]
    /\ thrown = [s \in Sides |-> ""]
    /\ sample = NoSample
    /\ verdict = "none"

\* obj[key] = value on a JavaScript object used as a map
Put(obj, key, value) ==
    [x \in DOMAIN obj \cup {key} |-> IF x = key THEN value ELSE obj[x]]

\* delete obj[key]
Delete(obj, key) == [x \in DOMAIN obj \ {key} |-> obj[x]]

\* send(m) on side s: m is queued for the peer
send(w, s, m) == [w EXCEPT ![Peer(s)] = Append(@, m)]

\* resolve / fail of the deferred result cid of side s
Settle(cs, s, cid, outcome) ==
    [cs EXCEPT ![s][cid] = [@ EXCEPT !.st = "settled", !.out = outcome]]

(***************************************************************************)
(* publishFunction and sendFunction.                                       *)
(***************************************************************************)
PublishMessage(lfd) ==
    [type |-> "publish", name |-> lfd.name, args |-> lfd.args, returns |-> lfd.returns]

sendFunction(w, s, lfd) == send(w, s, PublishMessage(lfd))

\* a variant without the test for a name already published
AlreadyPublishedNever(s, name) == FALSE

\* published.hasOwnProperty(name)
AlreadyPublished(s, name) == name \in DOMAIN published[s]

\* channel.publish(lfd); a name already published raises to user code
publishFunction(s, lfd) ==
    IF AlreadyPublished(s, lfd.name)
    THEN /\ thrown' = [thrown EXCEPT ![s] =
                "channel already has a published function called " \o lfd.name]
         /\ UNCHANGED <<published, wire>>
    ELSE /\ published' = [published EXCEPT ![s] = Put(@, lfd.name, lfd)]
         /\ wire' = sendFunction(wire, s, lfd)
         /\ UNCHANGED thrown

(***************************************************************************)
(* The remote function handle: remoteFunctions[name] as the publish        *)
(* handler creates it, and as the close handler replaces it.               *)
(***************************************************************************)
LiveHandle(returns) == [kind |-> "live", returns |-> returns]

\* a variant of the replacement that still sends the call
InertHandleCalling == [kind |-> "live", returns |-> HNone]

InertHandle == [kind |-> "inert"]

CallMessage(nonce, name, args) ==
    [type |-> "call", nonce |-> nonce, name |-> name, args |-> Arr(args)]

\* a variant that reads the counter after the increment
FreshNonceAfter(s) == counter[s] + 1

\* const nonce = counter++
FreshNonce(s) == counter[s]

\* a variant that validates the arguments against the argTypes the peer
\* advertised and fails the call locally
InvokeHandleChecked(s, cid, cs, w) ==
    LET name == cs[s][cid].name
        h == remoteFunctions[s][name]
        nonce == counter[s]
    IN  IF h.kind = "live" /\ name \in DOMAIN published[Peer(s)]
                /\ validate(Arr(cs[s][cid].args), published[Peer(s)][name].args) # "true"
        THEN /\ wire' = w
             /\ calls' = Settle(cs, s, cid, Failed("Invalid Arguments"))
             /\ UNCHANGED <<counter, inFlight>>
        ELSE IF h.kind = "live"
        THEN /\ counter' = [counter EXCEPT ![s] = @ + 1]
             /\ wire' = send(w, s, CallMessage(nonce, name, cs[s][cid].args))
             /\ inFlight' = [inFlight EXCEPT ![s] =
                    Put(@, nonce, [name |-> name, returns |-> h.returns, call |-> cid])]
             /\ calls' = [cs EXCEPT ![s][cid] =
                    [@ EXCEPT !.st = "inflight", !.nonce = nonce]]
        ELSE /\ wire' = w
             /\ calls' = Settle(cs, s, cid, Resolved(Undef))
             /\ UNCHANGED <<counter, inFlight>>

\* remoteFunctions[name](...args) for the deferred result cid, after the
\* sends that left w on the wire
InvokeHandle(s, cid, cs, w) ==
    LET name == cs[s][cid].name
        h == remoteFunctions[s][name]
        nonce == FreshNonce(s)
    IN  IF h.kind = "live"
        THEN /\ counter' = [counter EXCEPT ![s] = @ + 1]
             /\ wire' = send(w, s, CallMessage(nonce, name, cs[s][cid].args))
             /\ inFlight' = [inFlight EXCEPT ![s] =
                    Put(@, nonce, [name |-> name, returns |-> h.returns, call |-> cid])]
             /\ calls' = [cs EXCEPT ![s][cid] =
                    [@ EXCEPT !.st = "inflight", !.nonce = nonce]]
        ELSE /\ wire' = w
             /\ calls' = Settle(cs, s, cid, Resolved(Undef))
             /\ UNCHANGED <<counter, inFlight>>

(***************************************************************************)
(* The Proxy get handler followed by the invocation of what it returns:    *)
(* channel.name(...args).                                                  *)
(***************************************************************************)
NewCall(name, args) ==
    [name |-> name, args |-> args, st |-> "new", nonce |-> 0, out |-> Pending]

\* a variant that looks the name up in the table of local publications
KnownLocally(s, prop) == prop \in DOMAIN published[s]

\* prop in remoteFunctions
Known(s, prop) == prop \in DOMAIN remoteFunctions[s]

\* the wrapper for a name not in remoteFunctions: queue resolve in expected
Expect(s, cid, name, cs) ==
    /\ expected' = [expected EXCEPT ![s] =
            Put(@, name, IF name \in DOMAIN @ THEN Append(@[name], cid) ELSE <<cid>>)]
    /\ calls' = [cs EXCEPT ![s][cid].st = "waiting"]
    /\ UNCHANGED <<counter, inFlight, wire>>

Call(s, name, args) ==
    /\ Len(calls[s]) < MaxCalls
    /\ LET cid == Len(calls[s]) + 1
           cs == [calls EXCEPT ![s] = Append(@, NewCall(name, args))]
       IN  IF Known(s, name)
           THEN InvokeHandle(s, cid, cs, wire) /\ UNCHANGED expected
           ELSE Expect(s, cid, name, cs)
    /\ UNCHANGED <<open, remoteFunctions, published, ready, running, thrown, probe>>

\* the rest of the wrapper, once the publish handler has called resolve
ExpectMessage(name) == [type |-> "expect", name |-> name]

Continue(s) ==
    /\ ready[s] # <<>>
    /\ LET cid == Head(ready[s])
       IN  InvokeHandle(s, cid, calls, send(wire, s, ExpectMessage(calls[s][cid].name)))
    /\ ready' = [ready EXCEPT ![s] = Tail(@)]
    /\ UNCHANGED <<open, remoteFunctions, published, expected, running, thrown, probe>>

(***************************************************************************)
(* The receive handler, one case per message type.  w is the wire with     *)
(* the handled message taken off.                                          *)
(***************************************************************************)
ErrorMessage(nonce, message) == [type |-> "error", nonce |-> nonce, message |-> message]

\* a variant that answers under the nonce of the first call
ResultMessageFirst(nonce, value) == [type |-> "result", nonce |-> 1, value |-> value]

ResultMessage(nonce, value) == [type |-> "result", nonce |-> nonce, value |-> value]

\* validate(args, argstype) as the call case reads it
ArgsValid(args, lfd) == validate(args, lfd.args)

\* a variant whose message leaves the name out
UnpublishedUnnamed(name) == "Unpublished Function"

\* `Unpublished Function: ${name}`
Unpublished(name) == "Unpublished Function: " \o name

\* case 'call', up to the invocation of fn
HandleCall(s, m, w) ==
    /\ IF m.name \notin DOMAIN published[s]
       THEN /\ wire' = send(w, s, ErrorMessage(m.nonce, Unpublished(m.name)))
            /\ UNCHANGED running
       ELSE LET lfd == published[s][m.name]
                ok == ArgsValid(m.args, lfd)
            IN  CASE ok = "true" ->
                        /\ running' = [running EXCEPT ![s] = @ \cup
                                {[nonce |-> m.nonce, name |-> m.name,
                                  args |-> m.args.v, fn |-> lfd.fn]}]
                        /\ wire' = w
                  [] ok = "false" ->
                        /\ wire' = send(w, s, ErrorMessage(m.nonce, "Invalid Arguments"))
                        /\ UNCHANGED running
                  [] OTHER ->
                        /\ wire' = send(w, s, ErrorMessage(m.nonce, "Exception: TypeError"))
                        /\ UNCHANGED running
    /\ UNCHANGED <<engine, calls, ready>>

\* a variant that sends the result as the implementation left it
NormalizeNot(result) == result

\* if (result === undefined || typeof result === 'undefined') result = null
Normalize(result) == IF result.k = "undef" THEN Null ELSE result

\* a variant that sends the result whatever open is
MayReplyAlways(s) == TRUE

\* if (open) guarding the send of a result
MayReply(s) == open[s]

\* case 'call', from the completion of the awaited fn(...args)
Complete(s, r) ==
    /\ r \in running[s]
    /\ running' = [running EXCEPT ![s] = @ \ {r}]
    /\ LET done == Apply(r.fn, r.args)
       IN  IF done.k = "return"
           THEN IF MayReply(s)
                THEN wire' = send(wire, s, ResultMessage(r.nonce, Normalize(done.v)))
                ELSE wire' = wire
           ELSE wire' = send(wire, s, ErrorMessage(r.nonce, "Exception: " \o done.v))
    /\ UNCHANGED <<engine, calls, ready, thrown, probe>>

\* a variant that resolves the waiters last first
ReleaseReversed(s, name) ==
    IF name \in DOMAIN expected[s]
    THEN /\ ready' = [ready EXCEPT ![s] = @ \o
                [i \in 1..Len(expected[s][name]) |->
                    expected[s][name][Len(expected[s][name]) + 1 - i]]]
         /\ calls' = [calls EXCEPT ![s] =
                [c \in DOMAIN @ |->
                    IF \E i \in 1..Len(expected[s][name]) : expected[s][name][i] = c
                    THEN [@[c] EXCEPT !.st = "released"]
                    ELSE @[c]]]
    ELSE UNCHANGED <<ready, calls>>

\* a variant that resolves only the first waiter
ReleaseFirst(s, name) ==
    IF name \in DOMAIN expected[s]
    THEN /\ ready' = [ready EXCEPT ![s] = Append(@, Head(expected[s][name]))]
         /\ calls' = [calls EXCEPT ![s][Head(expected[s][name])].st = "released"]
    ELSE UNCHANGED <<ready, calls>>

\* if (name in expected) expected[name].map(resolve => resolve()); for an
\* inherited name the map raises, as the last statement of the handler
Release(s, name) ==
    IF name \in DOMAIN expected[s]
    THEN /\ ready' = [ready EXCEPT ![s] = @ \o expected[s][name]]
         /\ calls' = [calls EXCEPT ![s] =
                [c \in DOMAIN @ |->
                    IF \E i \in 1..Len(expected[s][name]) : expected[s][name][i] = c
                    THEN [@[c] EXCEPT !.st = "released"]
                    ELSE @[c]]]
    ELSE UNCHANGED <<ready, calls>>

\* a variant that takes every publish for the first
AlreadyReceivedNever(s, name) == FALSE

\* remoteFunctions.hasOwnProperty(name)
AlreadyReceived(s, name) == name \in DOMAIN remoteFunctions[s]

\* case 'publish'
HandlePublish(s, m, w) ==
    /\ wire' = w
    /\ IF AlreadyReceived(s, m.name)
       THEN UNCHANGED <<remoteFunctions, ready, calls>>
       ELSE /\ remoteFunctions' = [remoteFunctions EXCEPT ![s] =
                    Put(@, m.name, LiveHandle(m.returns))]
            /\ Release(s, m.name)
    /\ UNCHANGED <<open, counter, inFlight, published, expected, running>>

\* published is an object literal: besides the names assigned to it, the
\* in operator finds the names it inherits from Object.prototype, such as
\* toString
Inherited == {"toString"}

\* name in published
InPublished(s, name) == name \in DOMAIN published[s] \cup Inherited

\* published[name]: the definition assigned under the name, or the
\* inherited function, whose name property is the name and which has no
\* args and no returns property
PublishedEntry(s, name) ==
    IF name \in DOMAIN published[s]
    THEN published[s][name]
    ELSE [name |-> name, args |-> Undef, returns |-> Undef, fn |-> "inherited"]

\* case 'expect'
HandleExpect(s, m, w) ==
    /\ IF InPublished(s, m.name)
       THEN wire' = sendFunction(w, s, PublishedEntry(s, m.name))
       ELSE wire' = w
    /\ UNCHANGED <<engine, calls, ready, running>>

\* inFlight.hasOwnProperty(nonce)
HasInFlight(s, nonce) == nonce \in DOMAIN inFlight[s]

\* a variant that hands out the oldest record in flight, whatever the nonce
OldestInFlightRecord(s, nonce) ==
    inFlight[s][CHOOSE n \in DOMAIN inFlight[s] : \A o \in DOMAIN inFlight[s] : n <= o]

\* inFlight[nonce]
InFlightRecord(s, nonce) == inFlight[s][nonce]

\* case 'error'
HandleError(s, m, w) ==
    /\ wire' = w
    /\ IF HasInFlight(s, m.nonce)
       THEN /\ calls' = Settle(calls, s, InFlightRecord(s, m.nonce).call, Failed(m.message))
            /\ inFlight' = [inFlight EXCEPT ![s] = Delete(@, m.nonce)]
       ELSE UNCHANGED <<calls, inFlight>>
    /\ UNCHANGED <<open, counter, remoteFunctions, published, expected, ready, running>>

\* a variant with the arguments of validate exchanged
ReturnValidExchanged(value, rpc) == validate(rpc.returns, value)

\* validate(value, rpc.returns) as the result case reads it
ReturnValid(value, rpc) == validate(value, rpc.returns)

\* case 'result'; a validate that raises leaves the handler before the delete
HandleResult(s, m, w) ==
    /\ wire' = w
    /\ IF HasInFlight(s, m.nonce)
       THEN LET rpc == InFlightRecord(s, m.nonce)
                ok == ReturnValid(m.value, rpc)
            IN  CASE ok = "false" ->
                        /\ calls' = Settle(calls, s, rpc.call,
                                Failed("invalid return value from rpc " \o rpc.name))
                        /\ inFlight' = [inFlight EXCEPT ![s] = Delete(@, m.nonce)]
                  [] ok = "true" ->
                        /\ calls' = Settle(calls, s, rpc.call, Resolved(m.value))
                        /\ inFlight' = [inFlight EXCEPT ![s] = Delete(@, m.nonce)]
                  [] OTHER -> UNCHANGED <<calls, inFlight>>
       ELSE UNCHANGED <<calls, inFlight>>
    /\ UNCHANGED <<open, counter, remoteFunctions, published, expected, ready, running>>

\* the receive handler on the next message sent to side s
Receive(s) ==
    /\ wire[s] # <<>>
    /\ LET m == Head(wire[s])
           w == [wire EXCEPT ![s] = Tail(@)]
       IN  CASE m.type = "call" -> HandleCall(s, m, w)
             [] m.type = "publish" -> HandlePublish(s, m, w)
             [] m.type = "expect" -> HandleExpect(s, m, w)
             [] m.type = "error" -> HandleError(s, m, w)
             [] m.type = "result" -> HandleResult(s, m, w)
    /\ UNCHANGED <<thrown, probe>>

(***************************************************************************)
(* The close handler.                                                      *)
(***************************************************************************)
\* a variant whose loop leaves after the first record
FailOldest(s) ==
    [calls EXCEPT ![s] =
        [c \in DOMAIN @ |->
            IF \E n \in DOMAIN inFlight[s] :
                    /\ inFlight[s][n].call = c
                    /\ \A o \in DOMAIN inFlight[s] : n <= o
            THEN [@[c] EXCEPT !.st = "settled", !.out = Failed("Connection Closed")]
            ELSE @[c]]]

\* for (const k of Object.keys(inFlight)) inFlight[k].fail('Connection Closed')
FailAll(s) ==
    [calls EXCEPT ![s] =
        [c \in DOMAIN @ |->
            IF \E n \in DOMAIN inFlight[s] : inFlight[s][n].call = c
            THEN [@[c] EXCEPT !.st = "settled", !.out = Failed("Connection Closed")]
            ELSE @[c]]]

Close(s) ==
    /\ open[s]
    /\ open' = [open EXCEPT ![s] = FALSE]
    /\ calls' = FailAll(s)
    /\ inFlight' = [inFlight EXCEPT ![s] = Empty]
    /\ remoteFunctions' = [remoteFunctions EXCEPT ![s] =
            [k \in DOMAIN @ |-> InertHandle]]
    /\ UNCHANGED <<counter, published, expected, ready, running, wire, thrown, probe>>

(***************************************************************************)
(* The system: user code publishes and calls on either side, messages are  *)
(* received in the order sent, implementations complete in any order, and  *)
(* either side's transport may close.                                      *)
(***************************************************************************)
\* user code publishes a definition under a name it has not used yet
Publish(s) ==
    /\ s = Publisher
    /\ \E lfd \in Definitions :
            /\ lfd.name \notin DOMAIN published[s]
            /\ publishFunction(s, lfd)
    /\ UNCHANGED <<open, counter, remoteFunctions, inFlight, expected,
                   calls, ready, running, probe>>

Invoke(s) == s = Caller /\ \E i \in Invocations : Call(s, i.name, i.args)

Finish(s) == \E r \in running[s] : Complete(s, r)

Next ==
    \E s \in Sides :
        \/ Publish(s)
        \/ Invoke(s)
        \/ Continue(s)
        \/ Receive(s)
        \/ Finish(s)
        \/ Close(s)

Spec == Init /\ [][Next]_vars

\* The event loop runs every queued continuation, the transport hands over
\* every message it carries and an invoked implementation completes; user
\* code and the transport's close are under no obligation.
Fairness ==
    \A s \in Sides :
        /\ WF_vars(Receive(s))
        /\ WF_vars(Continue(s))
        /\ WF_vars(Finish(s))

FairSpec == Spec /\ Fairness

(***************************************************************************)
(* A publication made too early.  createChannel publishes the definitions  *)
(* of its publish parameter while it runs; when the peer's engine is       *)
(* created later, these publish messages reach a transport end that has no *)
(* receive handler yet and are dropped.  The publisher starts with one     *)
(* definition in its published table and nothing on the wire; from then on *)
(* the transport delivers everything.                                      *)
(***************************************************************************)
EarlyInit ==
    /\ open = [s \in Sides |-> TRUE]
    /\ counter = [s \in Sides |-> 1]
    /\ remoteFunctions = [s \in Sides |-> Empty]
    /\ inFlight = [s \in Sides |-> Empty]
    /\ \E lfd \in Definitions :
            published = [s \in Sides |->
                IF s = Publisher THEN Put(Empty, lfd.name, lfd) ELSE Empty]
    /\ expected = [s \in Sides |-> Empty]
    /\ calls = [s \in Sides |-> <<>>]
    /\ ready = [s \in Sides |-> <<>>]
    /\ running = [s \in Sides |-> {}]
    /\ wire = [s \in Sides |-> <<>>]
    /\ thrown = [s \in Sides |-> ""]
    /\ sample = NoSample
    /\ verdict = "none"

EarlySpec == EarlyInit /\ [][Next]_vars /\ Fairness

(***************************************************************************)
(* A synchronous transport.  With send(x) {r(x);}, as in the loopback of   *)
(* the example, send runs the receiving handler before it returns, and a   *)
(* message the handler sends in turn is handled before the handler goes    *)
(* on.  The message being delivered is the only one on the wire; the       *)
(* sender's next statement runs when the wire is empty again, and user     *)
(* code, completions and close run between such chains only.  The wrapper  *)
(* of a remote function is taken statement by statement: st is "expecting" *)
(* inside send(expect) and "sending" inside send(call).                    *)
(***************************************************************************)
Idle == \A t \in Sides : wire[t] = <<>>

\* the calls of side s that are inside a send
Midway(s) == {cid \in DOMAIN calls[s] : calls[s][cid].st \in {"expecting", "sending"}}

Quiet == Idle /\ \A s \in Sides : Midway(s) = {}

\* remoteFunctions[name](...args) up to the return of send: const nonce =
\* counter++ and send({type: 'call', ...})
SendCall(s, cid, cs) ==
    LET name == cs[s][cid].name
        h == remoteFunctions[s][name]
        nonce == FreshNonce(s)
    IN  IF h.kind = "live"
        THEN /\ counter' = [counter EXCEPT ![s] = @ + 1]
             /\ wire' = send(wire, s, CallMessage(nonce, name, cs[s][cid].args))
             /\ calls' = [cs EXCEPT ![s][cid] =
                    [@ EXCEPT !.st = "sending", !.nonce = nonce]]
        ELSE /\ calls' = Settle(cs, s, cid, Resolved(Undef))
             /\ UNCHANGED <<counter, wire>>

\* channel.name(...args)
SyncCall(s, name, args) ==
    /\ Quiet
    /\ Len(calls[s]) < MaxCalls
    /\ LET cid == Len(calls[s]) + 1
           cs == [calls EXCEPT ![s] = Append(@, NewCall(name, args))]
       IN  IF Known(s, name)
           THEN SendCall(s, cid, cs) /\ UNCHANGED <<expected, inFlight>>
           ELSE Expect(s, cid, name, cs)
    /\ UNCHANGED <<open, remoteFunctions, published, ready, running, thrown, probe>>

SyncInvoke(s) == s = Caller /\ \E i \in Invocations : SyncCall(s, i.name, i.args)

\* the wrapper for an unknown name, once resolved: send({type: 'expect', ...})
SyncExpect(s) ==
    /\ Quiet
    /\ ready[s] # <<>>
    /\ LET cid == Head(ready[s])
       IN  /\ wire' = send(wire, s, ExpectMessage(calls[s][cid].name))
           /\ calls' = [calls EXCEPT ![s][cid].st = "expecting"]
    /\ ready' = [ready EXCEPT ![s] = Tail(@)]
    /\ UNCHANGED <<open, counter, remoteFunctions, inFlight, published, expected,
                   running, thrown, probe>>

\* the wrapper for an unknown name, once send(expect) has returned:
\* remoteFunctions[prop](...args)
SyncProceed(s) ==
    /\ Idle
    /\ \E cid \in DOMAIN calls[s] :
            /\ calls[s][cid].st = "expecting"
            /\ SendCall(s, cid, calls)
    /\ UNCHANGED <<open, remoteFunctions, inFlight, published, expected, ready,
                   running, thrown, probe>>

\* remoteFunctions[name](...args) once send(call) has returned: the promise
\* whose executor sets inFlight[nonce]
Register(s) ==
    /\ Idle
    /\ \E cid \in DOMAIN calls[s] :
            /\ calls[s][cid].st = "sending"
            /\ LET c == calls[s][cid]
               IN  inFlight' = [inFlight EXCEPT ![s] =
                        Put(@, c.nonce, [name |-> c.name,
                                         returns |-> remoteFunctions[s][c.name].returns,
                                         call |-> cid])]
            /\ calls' = [calls EXCEPT ![s][cid].st = "inflight"]
    /\ UNCHANGED <<open, counter, remoteFunctions, published, expected, ready,
                   running, wire, thrown, probe>>

SyncNext ==
    \E s \in Sides :
        \/ Quiet /\ Publish(s)
        \/ SyncInvoke(s)
        \/ SyncExpect(s)
        \/ SyncProceed(s)
        \/ Register(s)
        \/ Receive(s)
        \/ Quiet /\ Finish(s)
        \/ Quiet /\ Close(s)

SyncSpec == Init /\ [][SyncNext]_vars

(***************************************************************************)
(* A callable kept by user code.  const f = channel.name runs the Proxy    *)
(* get handler alone and f(...args) runs what it returned, later: the      *)
(* wrapper for an unknown name if the name was not in remoteFunctions at   *)
(* the get, the handle of that moment otherwise.  The entry of calls       *)
(* carries the callable in its field held until it is invoked.             *)
(***************************************************************************)
Wrapper == [kind |-> "wrapper"]

\* get(_t, prop, _r) for a prop other than publish
ProxyGet(s, prop) == IF ~Known(s, prop) THEN Wrapper ELSE remoteFunctions[s][prop]

\* const f = channel.name, for the arguments f is to be invoked with
Obtain(s) ==
    /\ s = Caller
    /\ Len(calls[s]) < MaxCalls
    /\ \E i \in Invocations :
            calls' = [calls EXCEPT ![s] = Append(@,
                [name |-> i.name, args |-> i.args, st |-> "held", nonce |-> 0,
                 out |-> Pending, held |-> ProxyGet(s, i.name)])]
    /\ UNCHANGED <<engine, ready, running, wire, thrown, probe>>

\* f(...args): the wrapper queues its resolve in expected; a handle sends
\* its call message or, if it is the replacement of the close handler,
\* only logs
InvokeHeld(s) ==
    /\ \E cid \in DOMAIN calls[s] :
            /\ calls[s][cid].st = "held"
            /\ LET c == calls[s][cid]
                   nonce == FreshNonce(s)
               IN  CASE c.held.kind = "wrapper" -> Expect(s, cid, c.name, calls)
                     [] c.held.kind = "live" ->
                            /\ counter' = [counter EXCEPT ![s] = @ + 1]
                            /\ wire' = send(wire, s, CallMessage(nonce, c.name, c.args))
                            /\ inFlight' = [inFlight EXCEPT ![s] =
                                    Put(@, nonce, [name |-> c.name,
                                                   returns |-> c.held.returns,
                                                   call |-> cid])]
                            /\ calls' = [calls EXCEPT ![s][cid] =
                                    [@ EXCEPT !.st = "inflight", !.nonce = nonce]]
                            /\ UNCHANGED expected
                     [] OTHER ->
                            /\ calls' = Settle(calls, s, cid, Resolved(Undef))
                            /\ UNCHANGED <<counter, inFlight, wire, expected>>
    /\ UNCHANGED <<open, remoteFunctions, published, ready, running, thrown, probe>>

HeldNext ==
    \E s \in Sides :
        \/ Publish(s)
        \/ Obtain(s)
        \/ InvokeHeld(s)
        \/ Continue(s)
        \/ Receive(s)
        \/ Finish(s)
        \/ Close(s)

HeldSpec == Init /\ [][HeldNext]_vars /\ Fairness

(***************************************************************************)
(* An engine used outside the happy path.  The receive handler takes       *)
(* whatever message the transport hands over: here the far end is not the  *)
(* engine's twin and sends calls and expects of its own making, for names  *)
(* published or not, one at a time, once the transport is idle and the     *)
(* call before is served.  User code publishes under names it has used     *)
(* already, and user code on the engine's peer makes no call of its own.   *)
(***************************************************************************)
ForeignMessages ==
    {CallMessage(nonce, i.name, i.args) : nonce \in {1, 2}, i \in Invocations}
        \cup {CallMessage(nonce, name, <<>>) : nonce \in {1, 2}, name \in Inherited}
        \cup {ExpectMessage(name) : name \in Names \cup Inherited}

Arrive(s) ==
    /\ s = Publisher
    /\ \A t \in Sides : wire[t] = <<>>
    /\ running[s] = {}
    /\ \E m \in ForeignMessages : wire' = [wire EXCEPT ![s] = <<m>>]
    /\ UNCHANGED <<engine, calls, ready, running, thrown, probe>>

\* user code publishes a definition under a name already published
Republish(s) ==
    /\ s = Publisher
    /\ \E lfd \in Definitions :
            /\ lfd.name \in DOMAIN published[s]
            /\ publishFunction(s, lfd)
    /\ UNCHANGED <<open, counter, remoteFunctions, inFlight, expected,
                   calls, ready, running, probe>>

ServeNext ==
    \E s \in Sides :
        \/ Publish(s)
        \/ Republish(s)
        \/ Arrive(s)
        \/ Receive(s)
        \/ Finish(s)
        \/ Close(s)

ServeSpec == Init /\ [][ServeNext]_vars

(***************************************************************************)
(* validate on its own: a value and a type are drawn, validate is applied  *)
(* to them and its outcome recorded.                                       *)
(***************************************************************************)
SampleValues ==
    { Null, Num(1), Str("x"), Bool(TRUE),
      Arr(<<>>), Arr(<<Num(5)>>), Arr(<<Num(1), Str("x")>>),
      Obj(<<>>),
      Obj(<< <<"a", Num(1)>> >>),
      Obj(<< <<"a", Str("x")>> >>),
      Obj(<< <<"a", Num(1)>>, <<"b", Num(2)>> >>),
      Obj(<< <<"b", Num(2)>>, <<"a", Num(1)>> >>),
      Obj(<< <<"a", Num(1)>>, <<"b", Num(2)>>, <<"c", Num(3)>> >>) }

SampleTypes ==
    { HNone, HString, HNumber, HBoolean, Num(7), Null, Undef, Str("x"),
      Arr(<<>>), Arr(<<HNumber>>), Arr(<<HNumber, HString>>),
      Obj(<<>>), Point,
      Obj(<< <<"a", HNumber>>, <<"b", HNumber>> >>),
      Obj(<< <<"0", HNumber>> >>),
      HArray(HNumber), HObject(HString, HNumber), HUnion(<<HNumber, HString>>),
      HUnion(<<>>),
      Obj(<< <<"$c", Num(TagUnion)>> >>),
      Obj(<< <<"$c", Num(TagObject)>> >>),
      Obj(<< <<"$c", Num(TagArray)>> >>),
      Obj(<< <<"$c", Num(7)>> >>) }

Samples == [value : SampleValues, type : SampleTypes]

ValidateInit ==
    /\ open = [s \in Sides |-> TRUE]
    /\ counter = [s \in Sides |-> 1]
    /\ remoteFunctions = [s \in Sides |-> Empty]
    /\ inFlight = [s \in Sides |-> Empty]
    /\ published = [s \in Sides |-> Empty]
    /\ expected = [s \in Sides |-> Empty]
    /\ calls = [s \in Sides |-> <<>>]
    /\ ready = [s \in Sides |-> <<>>]
    /\ running = [s \in Sides |-> {}]
    /\ wire = [s \in Sides |-> <<>>]
    /\ thrown = [s \in Sides |-> ""]
    /\ sample \in Samples
    /\ verdict = "none"

\* validate(value, type) is applied to the drawn pair
Check ==
    /\ verdict = "none"
    /\ verdict' = validate(sample.value, sample.type)
    /\ UNCHANGED <<engine, calls, ready, running, wire, thrown, sample>>

\* another pair is drawn
Draw ==
    /\ verdict # "none"
    /\ sample' \in Samples
    /\ verdict' = "none"
    /\ UNCHANGED <<engine, calls, ready, running, wire, thrown>>

ValidateNext == Check \/ Draw

ValidateSpec == ValidateInit /\ [][ValidateNext]_vars

(***************************************************************************)
(* What the peer's definition makes of a call.                             *)
(***************************************************************************)
CallIds(s) == 1..Len(calls[s])

\* the definition the peer of s has published under the name of call cid
PeerDefinition(s, cid) == published[Peer(s)][calls[s][cid].name]

PeerPublished(s, cid) == calls[s][cid].name \in DOMAIN published[Peer(s)]

\* the call's arguments validate and its implementation returns a value
\* that validates against the published return type
GoodCall(s, cid) ==
    /\ PeerPublished(s, cid)
    /\ LET lfd == PeerDefinition(s, cid)
           done == Apply(lfd.fn, calls[s][cid].args)
       IN  /\ validate(Arr(calls[s][cid].args), lfd.args) = "true"
           /\ done.k = "return"
           /\ validate(Normalize(done.v), lfd.returns) = "true"

\* the value the peer's implementation produces for the call's arguments,
\* undefined if it raises
Produced(s, cid) ==
    LET done == Apply(PeerDefinition(s, cid).fn, calls[s][cid].args)
    IN  IF done.k = "return" THEN Normalize(done.v) ELSE Undef

BothOpen == \A s \in Sides : open[s]

\* C1: publish-then-call round trip.  A call in flight to a published
\* function, with valid arguments and a valid return value, is eventually
\* completed with exactly the value the implementation produced for its
\* arguments, unless one end of the channel closes.
C1_RoundTrip ==
    \A cid \in 1..MaxCalls :
        (/\ cid \in CallIds(Caller)
         /\ calls[Caller][cid].st = "inflight"
         /\ GoodCall(Caller, cid))
        ~> (\/ ~BothOpen
            \/ /\ cid \in CallIds(Caller)
               /\ PeerPublished(Caller, cid)
               /\ calls[Caller][cid].out = Resolved(Produced(Caller, cid)))

\* add(3, 5) has completed with 8 on an open channel
C1_Witness ==
    /\ BothOpen
    /\ \E cid \in CallIds(Caller) :
        /\ calls[Caller][cid].name = "add"
        /\ calls[Caller][cid].args = <<Num(3), Num(5)>>
        /\ calls[Caller][cid].out = Resolved(Num(8))

\* what the reply to the call says once the caller has handled it: the
\* peer's verdict on the arguments, then its implementation's completion,
\* then the caller's verdict on the returned value
OwnReply(s, cid) ==
    LET lfd == PeerDefinition(s, cid)
        args == calls[s][cid].args
        ok == validate(Arr(args), lfd.args)
        done == Apply(lfd.fn, args)
    IN  CASE ok = "false" -> {Failed("Invalid Arguments")}
          [] ok = "throw" -> {Failed("Exception: TypeError")}
          [] ok = "true" /\ done.k = "throw" -> {Failed("Exception: " \o done.v)}
          [] OTHER ->
                LET back == validate(Normalize(done.v), lfd.returns)
                IN  CASE back = "true" -> {Resolved(Normalize(done.v))}
                      [] back = "false" ->
                            {Failed("invalid return value from rpc " \o lfd.name)}
                      [] OTHER -> {}

\* C2: out-of-order completion integrity.  Whatever the number of calls
\* pending together and the order of the replies, a call that went on the
\* wire is settled only by the reply computed from its own arguments (or by
\* the close of the channel), never by another call's reply.
C2_OwnReply ==
    \A cid \in CallIds(Caller) :
        LET c == calls[Caller][cid]
        IN  (c.st = "settled" /\ c.nonce # 0)
                => /\ PeerPublished(Caller, cid)
                   /\ c.out \in OwnReply(Caller, cid) \cup {Failed("Connection Closed")}

\* two calls to add were pending together and the later one has completed
\* first, with its own sum
C2_Witness ==
    /\ Len(calls[Caller]) >= 2
    /\ calls[Caller][1].name = "add"
    /\ calls[Caller][2].name = "add"
    /\ calls[Caller][1].args # calls[Caller][2].args
    /\ calls[Caller][1].st = "inflight"
    /\ calls[Caller][2].out = Resolved(Produced(Caller, 2))

(***************************************************************************)
(* Steps, as action formulas over the engine state.                        *)
(***************************************************************************)
\* side s receives the message at the head of its wire
Receives(s) == wire[s] # <<>> /\ wire'[s] = Tail(wire[s])

\* user code on side s makes a call: a new deferred result is handed out
Calls(s) == Len(calls'[s]) = Len(calls[s]) + 1

\* the close handler of side s runs
Closes(s) == open[s] /\ ~open'[s]

\* side s sends exactly the messages ms, in that order, in this step
Sends(s, ms) == wire'[Peer(s)] = wire[Peer(s)] \o ms

\* C3: invalid arguments never invoke the implementation.  An inbound call
\* to a published function whose args do not validate against the published
\* argTypes is answered by error{nonce, "Invalid Arguments"} and invokes
\* nothing, and the caller's deferred result fails with "Invalid Arguments"
\* (or with the close of its channel).
C3_InvalidArguments ==
    /\ [][\A s \in Sides :
            (/\ Receives(s)
             /\ Head(wire[s]).type = "call"
             /\ Head(wire[s]).name \in DOMAIN published[s]
             /\ ArgsValid(Head(wire[s]).args, published[s][Head(wire[s]).name]) # "true")
            => /\ Sends(s, <<ErrorMessage(Head(wire[s]).nonce, "Invalid Arguments")>>)
               /\ running' = running]_vars
    /\ [](\A cid \in CallIds(Caller) :
            (/\ calls[Caller][cid].st = "settled"
             /\ calls[Caller][cid].nonce # 0
             /\ PeerPublished(Caller, cid)
             /\ ArgsValid(Arr(calls[Caller][cid].args), PeerDefinition(Caller, cid)) # "true")
            => calls[Caller][cid].out \in
                    {Failed("Invalid Arguments"), Failed("Connection Closed")})

\* C4: an invalid return is rejected only on the caller.  A result for a
\* nonce in flight whose value does not validate against the recorded
\* returnType fails the deferred result with "invalid return value from rpc
\* <name>", removes the record and sends nothing back.
C4_InvalidReturn ==
    [][\A s \in Sides :
        (/\ Receives(s)
         /\ Head(wire[s]).type = "result"
         /\ HasInFlight(s, Head(wire[s]).nonce)
         /\ ReturnValid(Head(wire[s]).value, inFlight[s][Head(wire[s]).nonce]) # "true")
        => LET rpc == inFlight[s][Head(wire[s]).nonce]
           IN  /\ calls'[s][rpc.call].out =
                        Failed("invalid return value from rpc " \o rpc.name)
               /\ ~HasInFlight(s, Head(wire[s]).nonce)'
               /\ Sends(s, <<>>)]_vars

\* C5: expect is emitted first.  A call to a name without a remote function
\* handle sends expect{name} in the step that queues it in the expectation
\* queue, before any publish for the name is received.
C5_ExpectFirst ==
    [][\A s \in Sides :
        (Calls(s) /\ ~Known(s, calls'[s][Len(calls'[s])].name))
        => Sends(s, <<ExpectMessage(calls'[s][Len(calls'[s])].name)>>)]_vars

HasHandle(s, name) == name \in DOMAIN remoteFunctions[s]

C7_NoExpectForKnown ==
    [][\A s \in Sides :
        (/\ Calls(s)
         /\ open[s]
         /\ HasHandle(s, calls'[s][Len(calls'[s])].name))
        => LET c == calls'[s][Len(calls'[s])]
           IN  /\ \E n \in 1..MaxCalls : Sends(s, <<CallMessage(n, c.name, c.args)>>)
               /\ expected'[s] = expected[s]
               /\ c.st = "inflight"]_vars

\* a second call to add went straight on the wire after a first one had
\* waited for the publication
C7_Witness ==
    /\ open[Caller]
    /\ Len(calls[Caller]) = 2
    /\ "add" \in DOMAIN expected[Caller]
    /\ Len(expected[Caller]["add"]) = 1
    /\ calls[Caller][2].name = "add"
    /\ calls[Caller][2].st = "inflight"

\* C8: close fails every in-flight call.  When the close handler runs,
\* every deferred result with a record in the in-flight table fails with
\* "Connection Closed", the table is empty afterwards and the engine is not
\* open.
C8_CloseFailsInFlight ==
    [][\A s \in Sides :
        Closes(s)
        => /\ \A n \in DOMAIN inFlight[s] :
                calls'[s][inFlight[s][n].call].out = Failed("Connection Closed")
           /\ DOMAIN inFlight'[s] = {}
           /\ ~open'[s]]_vars

\* the close handler has run with two calls in flight
C8_Witness ==
    /\ ~open[Caller]
    /\ Len(calls[Caller]) = 2
    /\ \A cid \in CallIds(Caller) :
        /\ calls[Caller][cid].nonce # 0
        /\ calls[Caller][cid].out = Failed("Connection Closed")

\* C9: no result or error is processed after close.  A result or error
\* message received after the close handler has run settles no deferred
\* result and changes no engine state.
C9_NothingAfterClose ==
    [][\A s \in Sides :
        (/\ ~open[s]
         /\ Receives(s)
         /\ Head(wire[s]).type \in {"result", "error"})
        => UNCHANGED <<calls[s], inFlight[s], remoteFunctions[s], expected[s],
                       counter[s]>>]_vars

Unsettled(s, cid) == cid \in CallIds(s) /\ calls[s][cid].out = Pending

\* C10: closing the channel unblocks all pending calls.  A call pending
\* when the close handler runs is eventually settled, whether it has an
\* in-flight record or waits in the expectation queue.
C10_CloseUnblocks ==
    \A cid \in 1..MaxCalls :
        []((Unsettled(Caller, cid) /\ open[Caller])
            => [](~open[Caller] => <>(~Unsettled(Caller, cid))))

\* C11: duplicate local publication fails synchronously and has no effect.
\* channel.publish(lfd) for a name already in the published table raises to
\* user code, sends nothing, and leaves the published table (the definition
\* first registered under the name included) and every other engine variable
\* as they were; no step ever replaces a registered definition.
C11_DuplicatePublication ==
    [][\A s \in Sides :
        /\ \A name \in DOMAIN published[s] :
                /\ name \in DOMAIN published'[s]
                /\ published'[s][name] = published[s][name]
        /\ \A lfd \in Definitions :
                (/\ lfd.name \in DOMAIN published[s]
                 /\ publishFunction(s, lfd)
                 /\ UNCHANGED <<calls, ready, running, open>>)
                => /\ thrown'[s] =
                        "channel already has a published function called " \o lfd.name
                   /\ UNCHANGED <<published, wire, engine>>]_vars

\* publish has raised for nop while the no-argument definition first
\* registered under that name is still the published one
C11_Witness ==
    /\ thrown[Publisher] = "channel already has a published function called nop"
    /\ "nop" \in DOMAIN published[Publisher]
    /\ published[Publisher]["nop"] = noargs

\* the deferred result cid of side s fails with message and no other
\* deferred result of the side changes
FailsOnly(s, cid, message) ==
    calls'[s] = [calls[s] EXCEPT ![cid] =
                    [@ EXCEPT !.st = "settled", !.out = Failed(message)]]

\* C12: exactly-once settlement.  A settled deferred result is never
\* settled again; a call that went on the wire has an in-flight record
\* exactly while its deferred result is unsettled; and each recoverable
\* error (an error message for a nonce in flight, a result whose value does
\* not validate against the recorded returnType, the close of the channel)
\* fails the deferred result of each call it affects, and no other.
C12_ExactlyOnce ==
    /\ [](\A s \in Sides :
            /\ \A cid \in CallIds(s) :
                    calls[s][cid].nonce # 0
                        => (HasInFlight(s, calls[s][cid].nonce)
                                <=> calls[s][cid].out = Pending)
            /\ \A n \in DOMAIN inFlight[s] :
                    /\ inFlight[s][n].call \in CallIds(s)
                    /\ calls[s][inFlight[s][n].call].nonce = n)
    /\ [][\A s \in Sides :
            /\ \A cid \in CallIds(s) :
                    calls[s][cid].out # Pending
                        => calls'[s][cid].out = calls[s][cid].out
            /\ (/\ Receives(s)
                /\ Head(wire[s]).type = "error"
                /\ HasInFlight(s, Head(wire[s]).nonce))
               => FailsOnly(s, inFlight[s][Head(wire[s]).nonce].call,
                            Head(wire[s]).message)
            /\ (/\ Receives(s)
                /\ Head(wire[s]).type = "result"
                /\ HasInFlight(s, Head(wire[s]).nonce)
                /\ validate(Head(wire[s]).value,
                            inFlight[s][Head(wire[s]).nonce].returns) # "true")
               => FailsOnly(s, inFlight[s][Head(wire[s]).nonce].call,
                            "invalid return value from rpc "
                                \o inFlight[s][Head(wire[s]).nonce].name)
            /\ Closes(s)
               => \A cid \in CallIds(s) :
                    calls'[s][cid].out =
                        IF HasInFlight(s, calls[s][cid].nonce)
                        THEN Failed("Connection Closed")
                        ELSE calls[s][cid].out]_vars

\* the awaited implementation of the inbound call r completes on side s
Completes(s, r) == r \in running[s] /\ running'[s] = running[s] \ {r}

\* C13: late results are dropped.  When the implementation serving an
\* inbound call completes successfully after the close handler of its side
\* has run, the engine sends no message for that call.
C13_LateResultDropped ==
    [][\A s \in Sides :
        \A r \in running[s] :
            (/\ ~open[s]
             /\ Completes(s, r)
             /\ Apply(r.fn, r.args).k = "return")
            => wire' = wire]_vars

\* add(3, 5) was received and served by the publisher, which closed before
\* the implementation completed: nothing is left on the wire and the
\* caller's deferred result is still pending
C13_Witness ==
    /\ ~open[Publisher]
    /\ open[Caller]
    /\ running[Publisher] = {}
    /\ \A s \in Sides : wire[s] = <<>>
    /\ \E cid \in CallIds(Caller) :
        /\ calls[Caller][cid].name = "add"
        /\ calls[Caller][cid].st = "inflight"
        /\ calls[Caller][cid].out = Pending

\* C14: unpublished function rejection.  An inbound call{name, nonce, args}
\* for a name not in the published table is answered by exactly one
\* message, error{nonce, "Unpublished Function: <name>"} with the call's
\* nonce; no implementation is invoked and no engine variable changes.
C14_UnpublishedRejected ==
    [][\A s \in Sides :
        (/\ Receives(s)
         /\ Head(wire[s]).type = "call"
         /\ Head(wire[s]).name \notin DOMAIN published[s])
        => /\ Sends(s, <<ErrorMessage(Head(wire[s]).nonce,
                            "Unpublished Function: " \o Head(wire[s]).name)>>)
           /\ UNCHANGED <<running, engine>>]_vars

\* a call for add carrying nonce 2 was received while add was not
\* published, and its rejection is on the way back
C14_Witness ==
    /\ "add" \notin DOMAIN published[Publisher]
    /\ wire[Publisher] = <<>>
    /\ wire[Caller] = <<ErrorMessage(2, "Unpublished Function: add")>>

\* C15: received publication is idempotent, first wins.  A publish message
\* for a name that already has a remote function handle leaves the handle
\* and its returnType as they are, changes no engine variable, releases no
\* waiter and sends nothing.
C15_FirstPublishWins ==
    [][\A s \in Sides :
        (/\ Receives(s)
         /\ Head(wire[s]).type = "publish"
         /\ HasHandle(s, Head(wire[s]).name))
        => /\ UNCHANGED <<engine, calls, ready, running>>
           /\ Sends(s, <<>>)]_vars

\* a call to add waited for the publication and sent its expect once
\* released; the publisher has answered the expect with a second publish
\* for add, and the caller has received it
C15_Witness ==
    /\ HasHandle(Caller, "add")
    /\ "add" \in DOMAIN published[Publisher]
    /\ "add" \in DOMAIN expected[Caller]
    /\ calls[Caller][expected[Caller]["add"][1]].nonce # 0
    /\ \A s \in Sides : wire[s] = <<>>

\* C16: expect handling.  On an inbound expect{name} the engine sends
\* exactly one publish message with the name, argTypes and returnType of
\* the definition if the name is in the published table, and nothing if it
\* is not; in both cases no engine variable changes.
C16_ExpectHandling ==
    [][\A s \in Sides :
        (Receives(s) /\ Head(wire[s]).type = "expect")
        => /\ IF Head(wire[s]).name \in DOMAIN published[s]
              THEN Sends(s, <<PublishMessage(published[s][Head(wire[s]).name])>>)
              ELSE Sends(s, <<>>)
           /\ UNCHANGED <<engine, calls, ready, running>>]_vars

\* the nonces of the call messages side s has sent
NoncesUsed(s) == {calls[s][cid].nonce : cid \in CallIds(s)} \ {0}

\* C17: nonce discipline.  On each side the counter starts at 1 and never
\* decreases; the k-th call message a side sends carries nonce k, so the
\* nonces used are 1..counter-1, no two calls share one, and no two records
\* in flight together share a nonce.
C17_NonceDiscipline ==
    /\ [](\A s \in Sides :
            /\ counter[s] >= 1
            /\ NoncesUsed(s) = 1..(counter[s] - 1)
            /\ \A c, e \in CallIds(s) :
                    (c # e /\ calls[s][c].nonce # 0)
                        => calls[s][c].nonce # calls[s][e].nonce
            /\ \A n, o \in DOMAIN inFlight[s] :
                    n # o => inFlight[s][n].call # inFlight[s][o].call)
    /\ [][\A s \in Sides :
            /\ counter'[s] >= counter[s]
            /\ LET out == wire'[Peer(s)]
               IN  (/\ Len(out) > Len(wire[Peer(s)])
                    /\ out[Len(out)].type = "call")
                   => /\ out[Len(out)].nonce = counter[s]
                      /\ counter'[s] = counter[s] + 1]_vars

\* two calls are in flight together under the nonces 1 and 2
C17_Witness ==
    /\ counter[Caller] = 3
    /\ DOMAIN inFlight[Caller] = {1, 2}
    /\ calls[Caller][1].nonce = 1
    /\ calls[Caller][2].nonce = 2

\* validate has been applied to the drawn value and type
Checked == verdict # "none"

\* C18: validate is total and never throws.  For every value and every
\* descriptor, well-formed or not, validate returns true or false and never
\* raises; for a malformed or unrecognized descriptor it returns false.
C18_ValidateTotal ==
    Checked => verdict \in {"true", "false"}

\* type is a fixed structure object: an object other than null without $c
FixedObject(type) == type.k = "obj" /\ ~hasOwnProperty(type, "$c")

\* value is a mapping (not a sequence, a primitive or null) with exactly the
\* keys of fields, each of whose values validates against its field's type
ExactMapping(value, fields) ==
    /\ value.k = "obj"
    /\ {value.v[i][1] : i \in 1..Len(value.v)} = {fields.v[i][1] : i \in 1..Len(fields.v)}
    /\ \A i \in 1..Len(value.v) :
            validate(value.v[i][2], Get(fields, value.v[i][1])) = "true"

\* C19: FixedObject validation is exact.  validate(value, FixedObject(fields))
\* is true if and only if value is a mapping whose key set equals that of
\* fields and whose values validate against the declared types; FixedObject
\* with no fields accepts only the empty mapping.
C19_FixedObjectExact ==
    (Checked /\ FixedObject(sample.type))
        => (verdict = "true" <=> ExactMapping(sample.value, sample.type))

\* C20: void results are normalized.  When the implementation serving an
\* inbound call completes without a value on an open channel, the result
\* message carries null; so a call to a function that returns nothing
\* completes with null at the caller if the function was published with
\* returnType None, and fails with "invalid return value from rpc <name>" if
\* it was published with another primitive returnType (the close of the
\* caller's channel aside).
C20_VoidNormalized ==
    /\ [][\A s \in Sides :
            \A r \in running[s] :
                (/\ open[s]
                 /\ Completes(s, r)
                 /\ Apply(r.fn, r.args) = Returned(Undef))
                => Sends(s, <<ResultMessage(r.nonce, Null)>>)]_vars
    /\ [](\A cid \in CallIds(Caller) :
            (/\ calls[Caller][cid].st = "settled"
             /\ calls[Caller][cid].nonce # 0
             /\ PeerPublished(Caller, cid)
             /\ validate(Arr(calls[Caller][cid].args),
                         PeerDefinition(Caller, cid).args) = "true"
             /\ Apply(PeerDefinition(Caller, cid).fn, calls[Caller][cid].args)
                    = Returned(Undef)
             /\ isNumber(PeerDefinition(Caller, cid).returns))
            => calls[Caller][cid].out \in
                {IF PeerDefinition(Caller, cid).returns = HNone
                 THEN Resolved(Null)
                 ELSE Failed("invalid return value from rpc "
                                \o calls[Caller][cid].name),
                 Failed("Connection Closed")})

\* nop(), published with returnType None and returning nothing, has
\* completed with null at the caller
C20_Witness ==
    /\ "nop" \in DOMAIN published[Publisher]
    /\ published[Publisher]["nop"] = noargs
    /\ \E cid \in CallIds(Caller) :
        /\ calls[Caller][cid].name = "nop"
        /\ calls[Caller][cid].out = Resolved(Null)

\* the deferred result cid of side s fails with message in this step
FailsWith(s, cid, message) ==
    /\ cid \in CallIds(s)'
    /\ calls'[s][cid].out = Failed(message)
    /\ (cid \in CallIds(s) => calls[s][cid].out # Failed(message))

\* C21: the caller never self-validates.  On an open channel, a call to a
\* name that has a remote function handle sends the call message carrying
\* its arguments, whatever they are, and stays pending; a deferred result
\* fails with "Invalid Arguments" only when the error message of the
\* receiver of the call is handled; and a handle keeps, of the publish
\* message, the returnType alone.
C21_NoSelfValidation ==
    /\ [][\A s \in Sides :
            (/\ Calls(s)
             /\ open[s]
             /\ HasHandle(s, calls'[s][Len(calls'[s])].name))
            => LET c == calls'[s][Len(calls'[s])]
               IN  /\ Sends(s, <<[type |-> "call", nonce |-> counter[s],
                                  name |-> c.name, args |-> Arr(c.args)]>>)
                   /\ c.out = Pending]_vars
    /\ [][\A s \in Sides :
            \A cid \in 1..MaxCalls :
                FailsWith(s, cid, "Invalid Arguments")
                    => /\ Receives(s)
                       /\ Head(wire[s]) = [type |-> "error",
                                           nonce |-> calls[s][cid].nonce,
                                           message |-> "Invalid Arguments"]]_vars
    /\ [](\A s \in Sides :
            \A name \in DOMAIN remoteFunctions[s] :
                remoteFunctions[s][name].kind = "live"
                    => /\ DOMAIN remoteFunctions[s][name] = {"kind", "returns"}
                       /\ name \in DOMAIN published[Peer(s)]
                       /\ remoteFunctions[s][name].returns
                            = published[Peer(s)][name].returns)

\* nop(null) went on the wire as a call message although nop was advertised
\* without arguments
C21_Witness ==
    /\ open[Caller]
    /\ "nop" \in DOMAIN published[Publisher]
    /\ validate(Arr(<<Null>>), published[Publisher]["nop"].args) = "false"
    /\ \E i \in 1..Len(wire[Publisher]) :
        /\ wire[Publisher][i].type = "call"
        /\ wire[Publisher][i].name = "nop"
        /\ wire[Publisher][i].args = Arr(<<Null>>)

\* C22: post-close handles are inert.  The close handler replaces every
\* remote function handle that exists by an inert one, for good; a call
\* made afterwards to such a name sends no message, leaves the nonce
\* counter and the in-flight table alone and does not fail.
C22_InertAfterClose ==
    /\ [][\A s \in Sides :
            /\ Closes(s)
                => /\ DOMAIN remoteFunctions'[s] = DOMAIN remoteFunctions[s]
                   /\ \A name \in DOMAIN remoteFunctions[s] :
                        remoteFunctions'[s][name].kind = "inert"
            /\ \A name \in DOMAIN remoteFunctions[s] :
                remoteFunctions[s][name].kind = "inert"
                    => /\ ~open[s]
                       /\ remoteFunctions'[s][name] = remoteFunctions[s][name]]_vars
    /\ [][\A s \in Sides :
            (/\ Calls(s)
             /\ ~open[s]
             /\ HasHandle(s, calls'[s][Len(calls'[s])].name)
             /\ remoteFunctions[s][calls'[s][Len(calls'[s])].name].kind = "inert")
            => /\ Sends(s, <<>>)
               /\ counter'[s] = counter[s]
               /\ inFlight'[s] = inFlight[s]
               /\ calls'[s][Len(calls'[s])].nonce = 0
               /\ calls'[s][Len(calls'[s])].out.k # "failed"]_vars

\* add was called after the close handler had replaced its handle, and
\* nothing came of it
C22_Witness ==
    /\ ~open[Caller]
    /\ HasHandle(Caller, "add")
    /\ remoteFunctions[Caller]["add"].kind = "inert"
    /\ inFlight[Caller] = Empty
    /\ counter[Caller] = 1
    /\ \E cid \in CallIds(Caller) :
        /\ calls[Caller][cid].name = "add"
        /\ calls[Caller][cid].st = "settled"
        /\ calls[Caller][cid].nonce = 0
        /\ calls[Caller][cid].out = Resolved(Undef)

\* the places of wire w that hold a message of one of the types ts with nonce n
Holding(w, ts, n) == {i \in 1..Len(w) : w[i].type \in ts /\ w[i].nonce = n}

\* what there is of the call with nonce n sent to side s: the call message
\* on its way, the implementation invoked for it, and the replies on their
\* way back
CallTokens(s, n) ==
    Cardinality(Holding(wire[s], {"call"}, n))
        + Cardinality({r \in running[s] : r.nonce = n})
        + Cardinality(Holding(wire[Peer(s)], {"result", "error"}, n))

\* C23: exactly one reply per served call.  An inbound call is answered at
\* once by one error with its nonce, or its implementation is invoked; when
\* an implementation completes on an open engine one message is sent, the
\* result with the call's nonce if it returned and the error "Exception:
\* <message>" with the call's nonce if it raised, whatever else is running.
\* No call is ever answered twice, and every call message sent is
\* eventually answered unless one end of the channel closes.
C23_OneReplyPerCall ==
    /\ [](\A s \in Sides : \A n \in 1..MaxCalls : CallTokens(s, n) <= 1)
    /\ [][\A s \in Sides :
            (Receives(s) /\ Head(wire[s]).type = "call")
            => LET m == Head(wire[s])
               IN  \/ /\ Sends(s, <<>>)
                      /\ \E r \in running'[s] :
                            /\ r.nonce = m.nonce
                            /\ r.name = m.name
                            /\ running'[s] = running[s] \cup {r}
                            /\ r \notin running[s]
                   \/ /\ \E e \in {"Unpublished Function: " \o m.name,
                                   "Invalid Arguments", "Exception: TypeError"} :
                            Sends(s, <<[type |-> "error", nonce |-> m.nonce,
                                        message |-> e]>>)
                      /\ running'[s] = running[s]]_vars
    /\ [][\A s \in Sides :
            \A r \in running[s] :
                (open[s] /\ Completes(s, r))
                => LET done == Apply(r.fn, r.args)
                   IN  Sends(s, <<IF done.k = "return"
                                  THEN [type |-> "result", nonce |-> r.nonce,
                                        value |-> IF done.v = Undef THEN Null ELSE done.v]
                                  ELSE [type |-> "error", nonce |-> r.nonce,
                                        message |-> "Exception: " \o done.v]>>)]_vars
    /\ \A n \in 1..MaxCalls :
            (Holding(wire[Publisher], {"call"}, n) # {})
                ~> (\/ ~BothOpen
                    \/ Holding(wire[Caller], {"result", "error"}, n) # {})

\* two calls to an implementation that raises were running together; the
\* later one completed first and its error carries its nonce
C23_Witness ==
    /\ BothOpen
    /\ \E r \in running[Publisher] : r.nonce = 1 /\ r.fn = "raise"
    /\ wire[Caller] = <<[type |-> "error", nonce |-> 2, message |-> "Exception: Error"]>>

\* C24: waiters are released in original order.  The first publish received
\* for a name releases every call queued under it, in the order in which
\* the calls were made, and the released calls send their call messages in
\* that order: of two calls queued under a name the earlier one gets the
\* smaller nonce.
C24_ReleasedInOrder ==
    /\ [][\A s \in Sides :
            (/\ Receives(s)
             /\ Head(wire[s]).type = "publish"
             /\ ~HasHandle(s, Head(wire[s]).name)
             /\ Head(wire[s]).name \in DOMAIN expected[s])
            => LET queued == expected[s][Head(wire[s]).name]
               IN  /\ ready'[s] = ready[s] \o queued
                   /\ \A i \in 1..Len(queued) :
                        /\ calls[s][queued[i]].st = "waiting"
                        /\ calls'[s][queued[i]].st = "released"]_vars
    /\ [](\A s \in Sides :
            \A name \in DOMAIN expected[s] :
                \A i, j \in 1..Len(expected[s][name]) :
                    (i < j /\ calls[s][expected[s][name][j]].nonce # 0)
                        => /\ calls[s][expected[s][name][i]].nonce # 0
                           /\ calls[s][expected[s][name][i]].nonce
                                < calls[s][expected[s][name][j]].nonce)
    /\ [](\A s \in Sides :
            \A i, j \in 1..Len(wire[s]) :
                (i < j /\ wire[s][i].type = "call" /\ wire[s][j].type = "call")
                    => wire[s][i].nonce < wire[s][j].nonce)

\* add(3, 5) and then add(1, 2) were queued for the publication of add and
\* have sent their call messages, in that order
C24_Witness ==
    /\ "add" \in DOMAIN expected[Caller]
    /\ expected[Caller]["add"] = <<1, 2>>
    /\ calls[Caller][1].args = <<Num(3), Num(5)>>
    /\ calls[Caller][2].args = <<Num(1), Num(2)>>
    /\ Holding(wire[Publisher], {"call"}, 1) # {}
    /\ Holding(wire[Publisher], {"call"}, 2) # {}
    /\ calls[Caller][1].nonce = 1
    /\ calls[Caller][2].nonce = 2

\* C25: the expectation queue holds no entry for a name after draining.  An
\* entry of the expectation queue exists only while no remote function
\* handle exists for its name: once a publish for the name has been
\* handled, the queue has no entry and no waiters for it.
C25_DrainedEntryGone ==
    \A s \in Sides :
        \A name \in DOMAIN remoteFunctions[s] : name \notin DOMAIN expected[s]

\* C26: a result always consumes its record.  Handling a result message
\* whose nonce has a record in the in-flight table settles the record's
\* deferred result, by completing or by failing it, and removes the record,
\* whatever the value and the recorded returnType.
C26_ResultConsumesRecord ==
    [][\A s \in Sides :
        (/\ Receives(s)
         /\ Head(wire[s]).type = "result"
         /\ HasInFlight(s, Head(wire[s]).nonce))
        => LET rpc == inFlight[s][Head(wire[s]).nonce]
           IN  /\ calls'[s][rpc.call].st = "settled"
               /\ calls'[s][rpc.call].out.k \in {"resolved", "failed"}
               /\ DOMAIN inFlight'[s] = DOMAIN inFlight[s] \ {Head(wire[s]).nonce}]_vars

\* C27: expect recovers an already-made publication.  A call to a name the
\* peer has in its published table, made while this side has no remote
\* function handle for it, eventually gets the handle and sends its call
\* message, unless one end of the channel closes.
C27_ExpectRecovers ==
    \A cid \in 1..MaxCalls :
        (/\ cid \in CallIds(Caller)
         /\ PeerPublished(Caller, cid)
         /\ ~HasHandle(Caller, calls[Caller][cid].name))
        ~> (\/ ~BothOpen
            \/ /\ cid \in CallIds(Caller)
               /\ HasHandle(Caller, calls[Caller][cid].name)
               /\ calls[Caller][cid].nonce # 0)

C29_ClosedHasNoRecord ==
    /\ [](\A s \in Sides : ~open[s] => inFlight[s] = Empty)
    /\ [][\A s \in Sides : ~open[s] => counter'[s] = counter[s]]_vars

\* C30: the in-flight record precedes its reply.  Whenever a side handles a
\* result or an error that carries the nonce of one of its pending calls,
\* the record of that nonce is in the in-flight table, also when the
\* transport delivers the call and the peer's reply inside send: no reply
\* to a pending call is discarded for an unknown nonce.
C30_RecordPrecedesReply ==
    [][\A s \in Sides :
        (/\ Receives(s)
         /\ Head(wire[s]).type \in {"result", "error"}
         /\ \E cid \in CallIds(s) :
                /\ calls[s][cid].nonce = Head(wire[s]).nonce
                /\ calls[s][cid].out = Pending)
        => HasInFlight(s, Head(wire[s]).nonce)]_vars

\* C31: a wrapper obtained early still completes.  A callable obtained
\* while its name had no remote function handle and invoked once the
\* publish for the name has been received eventually sends its call message
\* and is settled, unless one end of the channel closes.
C31_EarlyWrapperCompletes ==
    \A cid \in 1..MaxCalls :
        (/\ cid \in CallIds(Caller)
         /\ calls[Caller][cid].held = Wrapper
         /\ calls[Caller][cid].st = "waiting"
         /\ HasHandle(Caller, calls[Caller][cid].name))
        ~> (\/ ~BothOpen
            \/ /\ cid \in CallIds(Caller)
               /\ calls[Caller][cid].nonce # 0
               /\ calls[Caller][cid].out # Pending)

====
